---- MODULE Spec2Model ----
(***************************************************************************)
(* A model of composer.cpp: the bouquet composer.  Design lines are parsed *)
(* into Designs (Design::from_string) and indexed per stem                 *)
(* (Composer::add_design); stem lines are parsed (Stem::from_string),      *)
(* added to the supply (Composer::add_stem) and tried against the designs  *)
(* indexed under the stem (Composer::bouquet_for_stem, _extract,           *)
(* _restore).                                                              *)
(*                                                                         *)
(* A std::string is a sequence of one-character strings.  A                *)
(* std::forward_list is a sequence whose first element is the front of the *)
(* list, so push_front prepends.  A std::unordered_map is a function whose *)
(* domain is the set of keys present; operator[] on an absent key inserts  *)
(* the value-initialised element (0, or the empty list).                   *)
(***************************************************************************)
EXTENDS Integers, Sequences, FiniteSets, TLC

VARIABLES
  pc,          \* main: "designs" (first loop), "stems" (second loop), "done", "aborted"
  line,        \* main: the std::string line last read
  supply,      \* Composer::supply, std::unordered_map<Stem, int>
  designs,     \* Composer::designs, std::unordered_map<Stem, forward_list<Design>>
  bouquet,     \* the std::optional<Bouquet> of the last bouquet_for_stem: <<>> or <<b>>
  registered,  \* history: the Designs handed to add_design, in call order
  inserted,    \* history: the number of add_stem calls
  drawn,       \* history: the sum of the counts of all Bouquets returned
  call         \* history: <<>> or <<c>>, the record of the last add_stem/bouquet_for_stem

vars == <<pc, line, supply, designs, bouquet, registered, inserted, drawn, call>>

----------------------------------------------------------------------------
(* Bounds of the model.                                                    *)

\* how many design lines main reads before the model stops reading designs
MaxDesigns == 2
\* how many stem lines main reads
MaxStems == 5
\* generated design lines (SpecParse): the number of <count><species> pairs
MaxPairs == 3
\* generated design lines (SpecParse): the largest count written in a pair
MaxCount == 2
\* generated design lines (SpecParse): the largest total written
MaxTotal == 5

----------------------------------------------------------------------------
(* Characters and small helpers.                                           *)

Lower == {"a", "b", "c", "d", "e", "f", "g", "h", "i", "j", "k", "l", "m",
          "n", "o", "p", "q", "r", "s", "t", "u", "v", "w", "x", "y", "z"}
Upper == {"A", "B", "C", "D", "E", "F", "G", "H", "I", "J", "K", "L", "M",
          "N", "O", "P", "Q", "R", "S", "T", "U", "V", "W", "X", "Y", "Z"}
Digit == {"0", "1", "2", "3", "4", "5", "6", "7", "8", "9"}
Sizes == {"S", "L"}

DigitVal(c) ==
  CASE c = "0" -> 0 [] c = "1" -> 1 [] c = "2" -> 2 [] c = "3" -> 3
    [] c = "4" -> 4 [] c = "5" -> 5 [] c = "6" -> 6 [] c = "7" -> 7
    [] c = "8" -> 8 [] c = "9" -> 9

DigitChar(d) ==
  CASE d = 0 -> "0" [] d = 1 -> "1" [] d = 2 -> "2" [] d = 3 -> "3"
    [] d = 4 -> "4" [] d = 5 -> "5" [] d = 6 -> "6" [] d = 7 -> "7"
    [] d = 8 -> "8" [] d = 9 -> "9"

Min(a, b) == IF a <= b THEN a ELSE b

RECURSIVE SumCounts(_)
\* the sum of the count members of a list of StemCounts
SumCounts(list) ==
  IF list = <<>> THEN 0 ELSE Head(list).count + SumCounts(Tail(list))

\* std::unordered_map: the value under key k, without inserting (0 when absent)
Count(map, k) == IF k \in DOMAIN map THEN map[k] ELSE 0
\* std::unordered_map: the list under key k, without inserting (empty when absent)
Bucket(map, k) == IF k \in DOMAIN map THEN map[k] ELSE <<>>
\* std::unordered_map: map[k] = v, inserting the key when absent
Put(map, k, v) == [x \in DOMAIN map \cup {k} |-> IF x = k THEN v ELSE map[x]]

\* std::forward_list::push_front
PushBack(x, list) == Append(list, x)
PushFront(x, list) == <<x>> \o list

RECURSIVE SumSupply(_, _)
SumSupply(map, keys) ==
  IF keys = {} THEN 0
  ELSE LET k == CHOOSE x \in keys : TRUE
       IN map[k] + SumSupply(map, keys \ {k})

----------------------------------------------------------------------------
(* Stem.                                                                   *)

\* Stem::Stem: the two range checks; TRUE when the constructor does not throw
StemValidSpeciesOnly(species, size) == species \in Lower
StemValid(species, size) ==
  /\ species \in Lower           \* not (species < 'a' || 'z' < species)
  /\ size \in Sizes              \* not (size != 'S' && size != 'L')

\* Stem::from_string: [ok, error, stem]
StemFromString(spec) ==
  IF Len(spec) # 2
    THEN [ok |-> FALSE, error |-> "Species should be initiated from 2-char string.",
          stem |-> [species |-> "", size |-> ""]]
  ELSE IF ~StemValid(spec[1], spec[2])
    THEN [ok |-> FALSE, error |-> "Species not in range a-z, or size not one of S, L",
          stem |-> [species |-> "", size |-> ""]]
  ELSE [ok |-> TRUE, error |-> "", stem |-> [species |-> spec[1], size |-> spec[2]]]

----------------------------------------------------------------------------
(* Design::from_string.                                                    *)

\* the largest int; std::stoi throws std::out_of_range above it
IntMax == 2147483647

RECURSIVE StoiFrom(_, _)
StoiFrom(s, acc) ==
  IF s = <<>> THEN acc ELSE StoiFrom(Tail(s), 10 * acc + DigitVal(Head(s)))

\* std::stoi of a string of decimal digits
stoi(s) == StoiFrom(s, 0)

RECURSIVE SkipDigits(_, _)
\* the index just past the run of digits of s that starts at index i
SkipDigits(s, i) ==
  IF i <= Len(s) /\ s[i] \in Digit THEN SkipDigits(s, i + 1) ELSE i

RECURSIVE TotalStart(_, _)
\* s from index i on is (\d+[a-z])*(\d+): the index at which the last \d+
\* starts, or 0 when s does not have that shape
TotalStart(s, i) ==
  LET j == SkipDigits(s, i)
  IN IF j = i THEN 0
     ELSE IF j > Len(s) THEN i
     ELSE IF s[j] \in Lower THEN TotalStart(s, j + 1)
     ELSE 0

\* std::regex_match(spec, match, pat_design) with
\* pat_design = ([A-Z])([SL])((?:\d+[a-z])+)(\d+) : [ok, m1, m2, m3, m4]
MatchDesign(spec) ==
  LET t == IF Len(spec) >= 2 THEN TotalStart(spec, 3) ELSE 0
  IN IF /\ Len(spec) >= 2
        /\ spec[1] \in Upper
        /\ spec[2] \in Sizes
        /\ t > 3
       THEN [ok |-> TRUE, m1 |-> spec[1], m2 |-> spec[2],
             m3 |-> SubSeq(spec, 3, t - 1), m4 |-> SubSeq(spec, t, Len(spec))]
       ELSE [ok |-> FALSE, m1 |-> "", m2 |-> "", m3 |-> <<>>, m4 |-> <<>>]

RECURSIVE RawSpecs(_, _)
\* the loop over regex_iter_match(match[3], pat_spec), pat_spec = (\d+)([a-z]):
\* one [digits, species] per match, in the order of the text
RawSpecs(s, i) ==
  IF i > Len(s) THEN <<>>
  ELSE LET j == SkipDigits(s, i)
       IN <<[digits |-> SubSeq(s, i, j - 1), species |-> s[j]]>> \o RawSpecs(s, j + 1)

\* auto any_stem_max = bouquet_size - stem_count + 1
AnyStemMaxOffByOne(bouquet_size, stem_count) == bouquet_size - stem_count
AnyStemMax(bouquet_size, stem_count) == bouquet_size - stem_count + 1

\* const auto max_required = std::min(spec.count, any_stem_max)
MaxRequiredRaw(count, any_stem_max) == count
MaxRequired(count, any_stem_max) == Min(count, any_stem_max)

\* if (max_required < 1) throw
RejectsNegativeOnly(max_required) == max_required < 0
Rejects(max_required) == max_required < 1

RECURSIVE BoundRequired(_, _, _)
\* the loop that fills `required`: [ok, required]; each StemCount is pushed
\* to the front, and the first max_required below 1 throws
BoundRequired(raw, any_stem_max, required) ==
  IF raw = <<>> THEN [ok |-> TRUE, required |-> required]
  ELSE LET max_required == MaxRequired(Head(raw).count, any_stem_max)
       IN IF Rejects(max_required)
            THEN [ok |-> FALSE, required |-> required]
            ELSE BoundRequired(Tail(raw), any_stem_max,
                   PushFront([stem |-> Head(raw).stem, count |-> max_required], required))

NoDesign == [name |-> "", size |-> "", required |-> <<>>, total |-> 0]

\* Design::from_string: [ok, error, design, raw]; raw is raw_stem_specifications
\* as far as it was built.  The Stem constructor never throws here: the
\* pattern has matched its two characters against [a-z] and [SL]
from_string(spec) ==
  LET match == MatchDesign(spec)
  IN IF ~match.ok
       THEN [ok |-> FALSE, error |-> "Not a valid pattern", design |-> NoDesign,
             raw |-> <<>>]
     ELSE
       LET name == match.m1
           stem_size == match.m2
           bouquet_size == stoi(match.m4)
           specs == RawSpecs(match.m3, 1)
           raw_stem_specifications ==
             [n \in 1..Len(specs) |->
                [stem |-> [species |-> specs[n].species, size |-> stem_size],
                 count |-> stoi(specs[n].digits)]]
           stem_count == Len(raw_stem_specifications)
           any_stem_max == AnyStemMax(bouquet_size, stem_count)
           bounded == BoundRequired(raw_stem_specifications, any_stem_max, <<>>)
       IN IF \/ bouquet_size > IntMax
             \/ \E n \in 1..Len(specs) : stoi(specs[n].digits) > IntMax
            THEN [ok |-> FALSE, error |-> "stoi", design |-> NoDesign, raw |-> <<>>]
          ELSE IF ~bounded.ok
            THEN [ok |-> FALSE, error |-> "Stem count must be a positive int",
                  design |-> NoDesign, raw |-> raw_stem_specifications]
          ELSE [ok |-> TRUE, error |-> "",
                design |-> [name |-> name, size |-> stem_size,
                            required |-> bounded.required, total |-> bouquet_size],
                raw |-> raw_stem_specifications]

----------------------------------------------------------------------------
(* Composer.                                                               *)

RECURSIVE AddDesignFrom(_, _, _)
\* the loop of add_design over design.required, from the front
AddDesignFrom(map, design, reqs) ==
  IF reqs = <<>> THEN map
  ELSE AddDesignFrom(
         Put(map, Head(reqs).stem, PushFront(design, Bucket(map, Head(reqs).stem))),
         design, Tail(reqs))

RECURSIVE AddDesignBackFrom(_, _, _)
AddDesignBackFrom(map, design, reqs) ==
  IF reqs = <<>> THEN map
  ELSE AddDesignBackFrom(
         Put(map, Head(reqs).stem, PushBack(design, Bucket(map, Head(reqs).stem))),
         design, Tail(reqs))

\* Composer::add_design: the new value of Composer::designs
AddDesignBack(map, design) == AddDesignBackFrom(map, design, design.required)
add_design(map, design) == AddDesignFrom(map, design, design.required)

\* Composer::add_stem: the new value of Composer::supply (supply[stem] += 1)
AddStemNothing(sup, stem) == Put(sup, stem, Count(sup, stem))
add_stem(sup, stem) == Put(sup, stem, Count(sup, stem) + 1)

\* auto take = std::min({req.count, entry, remaining})
TakeIgnoringRemaining(count, entry, remaining) == Min(count, entry)
TakeIgnoringCount(count, entry, remaining) == Min(entry, remaining)
TakeIgnoringEntry(count, entry, remaining) == Min(count, remaining)
Take(count, entry, remaining) == Min(count, Min(entry, remaining))

\* return remaining == 0
ExtractedAnyRemaining(remaining) == TRUE
Extracted(remaining) == remaining = 0

RECURSIVE ExtractFrom(_, _, _, _, _)
\* the loop of _extract over design.required, from the front:
\* [ok, supply, arrangement, remaining, steps, stopped].  steps lists each
\* draw: the requirement, the supply entry before it, the take and what
\* then remains; stopped tells that an entry of 0 ended the loop
ExtractFrom(reqs, sup, arrangement, remaining, steps) ==
  IF reqs = <<>>
    THEN [ok |-> Extracted(remaining), supply |-> sup, arrangement |-> arrangement,
          remaining |-> remaining, steps |-> steps, stopped |-> FALSE]
  ELSE LET req == Head(reqs)
           entry == Count(sup, req.stem)       \* supply[req.stem], inserted when absent
       IN IF entry # 0
            THEN LET take == Take(req.count, entry, remaining)
                 IN ExtractFrom(Tail(reqs),
                      Put(sup, req.stem, entry - take),
                      PushFront([stem |-> req.stem, count |-> take], arrangement),
                      remaining - take,
                      Append(steps, [stem |-> req.stem, count |-> req.count,
                                     entry |-> entry, take |-> take,
                                     remaining |-> remaining - take]))
            ELSE [ok |-> FALSE, supply |-> Put(sup, req.stem, 0),
                  arrangement |-> arrangement, remaining |-> remaining,
                  steps |-> steps, stopped |-> TRUE]

\* Composer::_extract on an empty arrangement
_extract(design, sup) == ExtractFrom(design.required, sup, <<>>, design.total, <<>>)

RECURSIVE RestoreFrom(_, _)
RestoreFrom(sup, arrangement) ==
  IF arrangement = <<>> THEN sup
  ELSE LET spec == Head(arrangement)
       IN RestoreFrom(Put(sup, spec.stem, Count(sup, spec.stem) + spec.count),
                      Tail(arrangement))

\* Composer::_restore: the new value of Composer::supply
RestoreNothing(sup, arrangement) == sup
RestoreFirstOnly(sup, arrangement) ==
  IF arrangement = <<>> THEN sup ELSE RestoreFrom(sup, <<Head(arrangement)>>)
_restore(sup, arrangement) == RestoreFrom(sup, arrangement)

RECURSIVE BouquetFrom(_, _, _)
\* the loop of bouquet_for_stem over the bucket, from the front:
\* [bouquet, supply, attempts].  attempts lists every _extract call: the
\* design, the supply it started from, its result and the supply it left
\* (after _restore when it failed)
BouquetFrom(bucket, sup, attempts) ==
  IF bucket = <<>> THEN [bouquet |-> <<>>, supply |-> sup, attempts |-> attempts]
  ELSE LET design == Head(bucket)
           e == _extract(design, sup)
           left == IF e.ok THEN e.supply ELSE _restore(e.supply, e.arrangement)
           attempt == [design |-> design, start |-> sup, ok |-> e.ok,
                       arrangement |-> e.arrangement, steps |-> e.steps,
                       stopped |-> e.stopped, remaining |-> e.remaining,
                       extracted |-> e.supply, left |-> left]
       IN IF e.ok
            THEN [bouquet |-> <<[design |-> design, arrangement |-> e.arrangement]>>,
                  supply |-> left, attempts |-> Append(attempts, attempt)]
            ELSE BouquetFrom(Tail(bucket), left, Append(attempts, attempt))

\* Composer::bouquet_for_stem; designs[stem] inserts an empty bucket when absent
bouquet_for_stem(map, sup, stem) == BouquetFrom(Bucket(map, stem), sup, <<>>)

----------------------------------------------------------------------------
(* The lines main reads.                                                   *)

\* design lines of the main program's run
DesignLines ==
  { <<"A", "S", "1", "a", "1", "b", "2">>,            \* AS1a1b2
    <<"B", "S", "1", "a", "1">>,                      \* BS1a1
    <<"C", "S", "2", "a", "2", "b", "2", "c", "4">>,  \* CS2a2b2c4
    <<"D", "S", "2", "a", "2", "a", "2">>,            \* DS2a2a2: species a twice
    <<"E", "S", "1", "a", "1", "b", "3">>,            \* ES1a1b3: maxima sum to 2 < 3
    <<"F", "L", "2", "a", "2">>,                      \* FL2a2
    <<"I", "S", "3", "a", "2", "b", "5">>,            \* IS3a2b5
    <<"G", "S", "0", "a", "1">>,                      \* GS0a1: count 0
    <<"H", "S", "1", "a", "1", "b", "1">>,            \* HS1a1b1: total < stem count
    <<"a", "s", "1", "a", "1">> }                     \* as1a1: no match

\* stem lines of the main program's run
StemLines ==
  { <<"a", "S">>, <<"b", "S">>, <<"c", "S">>, <<"a", "L">>,
    <<"a">>, <<"A", "S">>, <<"a", "M">> }

RECURSIVE FormatNat(_)
\* the decimal digits of n
FormatNat(n) ==
  IF n < 10 THEN <<DigitChar(n)>> ELSE FormatNat(n \div 10) \o <<DigitChar(n % 10)>>

RECURSIVE FormatPairs(_)
FormatPairs(pairs) ==
  IF pairs = <<>> THEN <<>>
  ELSE FormatNat(Head(pairs)[1]) \o <<Head(pairs)[2]>> \o FormatPairs(Tail(pairs))

\* the text <name><size>(<count><species>)+<total>
FormatDesign(name, size, pairs, total) ==
  <<name, size>> \o FormatPairs(pairs) \o FormatNat(total)

GenSpecies == {"a", "b"}

\* every design line of the grammar within the bounds, species possibly repeated
GrammarLines ==
  { FormatDesign("A", size, pairs, total) :
      size \in Sizes,
      pairs \in UNION { [1..n -> (0..MaxCount) \X GenSpecies] : n \in 1..MaxPairs },
      total \in 0..MaxTotal }

\* lines with numbers of two digits, and lines the grammar does not match
OtherLines ==
  { <<"A", "S", "1", "0", "a", "1", "2", "b", "1", "1">>,   \* AS10a12b11
    <<"A", "S", "1", "2", "a", "1", "0">>,                  \* AS12a10
    <<"A", "S", "0", "2", "a", "0", "2">>,                  \* AS02a02
    <<"a", "s", "3", "b", "5">>,                            \* as3b5
    <<"A", "S", "3">>,                                      \* AS3
    <<"A", "S", "a", "3">>,                                 \* ASa3
    <<"A", "S", "1", "a">>,                                 \* AS1a
    <<"A", "M", "1", "a", "1">>,                            \* AM1a1
    <<"A", "S", "1", "A", "1">>,                            \* AS1A1
    <<"A", "S", "1", "a", "1", " ">>,                       \* trailing blank
    <<"A">> }

GenLines == GrammarLines \cup OtherLines

----------------------------------------------------------------------------
(* main.                                                                   *)

EmptyMap == [x \in {} |-> 0]

Init ==
  /\ pc = "designs"
  /\ line = <<>>
  /\ supply = EmptyMap
  /\ designs = EmptyMap
  /\ bouquet = <<>>
  /\ registered = <<>>
  /\ inserted = 0
  /\ drawn = 0
  /\ call = <<>>

\* the body of the first loop on line l:
\* composer.add_design(Design::from_string(line)); the exception of
\* from_string is not caught, so it ends the program before add_design
Register(l) ==
  LET parsed == from_string(l)
  IN IF parsed.ok
       THEN /\ designs' = add_design(designs, parsed.design)
            /\ registered' = Append(registered, parsed.design)
            /\ pc' = pc
       ELSE /\ pc' = "aborted"
            /\ UNCHANGED <<designs, registered>>

\* the first loop reads a design line
ReadDesign ==
  /\ pc = "designs"
  /\ Len(registered) < MaxDesigns
  /\ \E l \in DesignLines :
       /\ line' = l
       /\ Register(l)
  /\ UNCHANGED <<supply, bouquet, inserted, drawn, call>>

\* readline returns false on an empty line: the loop that reads ends
BlankLine ==
  /\ pc \in {"designs", "stems"}
  /\ pc' = IF pc = "designs" THEN "stems" ELSE "done"
  /\ line' = <<>>
  /\ UNCHANGED <<supply, designs, bouquet, registered, inserted, drawn, call>>

\* readline returns false at the end of the input, in this loop and the next
EndOfFile ==
  /\ pc \in {"designs", "stems"}
  /\ pc' = "done"
  /\ line' = <<>>
  /\ UNCHANGED <<supply, designs, bouquet, registered, inserted, drawn, call>>

\* the body of the second loop on line l: Stem::from_string, add_stem,
\* bouquet_for_stem; the exception of Stem::from_string is not caught
ReadStem ==
  /\ pc = "stems"
  /\ inserted < MaxStems
  /\ \E l \in StemLines :
       LET parsed == StemFromString(l)
       IN /\ line' = l
          /\ IF ~parsed.ok
               THEN /\ pc' = "aborted"
                    /\ UNCHANGED <<supply, designs, bouquet, inserted, drawn, call>>
               ELSE LET stem == parsed.stem
                        added == add_stem(supply, stem)
                        r == bouquet_for_stem(designs, added, stem)
                    IN /\ pc' = pc
                       /\ supply' = r.supply
                       /\ designs' = Put(designs, stem, Bucket(designs, stem))
                       /\ bouquet' = r.bouquet
                       /\ inserted' = inserted + 1
                       /\ drawn' = drawn + (IF r.bouquet = <<>> THEN 0
                                            ELSE SumCounts(r.bouquet[1].arrangement))
                       /\ call' = <<[stem |-> stem, before |-> supply, added |-> added,
                                     bucket |-> Bucket(designs, stem),
                                     attempts |-> r.attempts]>>
  /\ UNCHANGED registered

Next == ReadDesign \/ BlankLine \/ EndOfFile \/ ReadStem

Spec == Init /\ [][Next]_vars

\* Design::from_string and add_design on one line out of GenLines
InitParse ==
  /\ pc = "designs"
  /\ line \in GenLines
  /\ supply = EmptyMap
  /\ designs = EmptyMap
  /\ bouquet = <<>>
  /\ registered = <<>>
  /\ inserted = 0
  /\ drawn = 0
  /\ call = <<>>

ParseLine ==
  /\ pc = "designs"
  /\ registered = <<>>
  /\ line' = line
  /\ Register(line)
  /\ UNCHANGED <<supply, bouquet, inserted, drawn, call>>

NextParse == ParseLine

SpecParse == InitParse /\ [][NextParse]_vars

----------------------------------------------------------------------------
(* Properties of the composer's run (Spec).                                *)

\* the record of the last add_stem/bouquet_for_stem
LastCall == call[1]
\* the stems that are keys of either map
Keys(m1, m2) == DOMAIN m1 \cup DOMAIN m2
\* the sum of all counts of the supply
TotalSupply == SumSupply(supply, DOMAIN supply)
\* the stems a design requires
StemsOf(design) == {design.required[n].stem : n \in 1..Len(design.required)}

\* C1 (conservation): in every state of a run of register operations
\* followed by insert operations, the sum of all supply counts equals the
\* number of stems inserted so far minus the sum of the counts of all
\* Bouquets returned so far.
C1_Conservation == TotalSupply = inserted - drawn

\* a Bouquet was returned and stems are left in the supply, after an insert
\* that found no Bouquet had left its stem there
C1_Witness ==
  /\ drawn > 0
  /\ bouquet # <<>>
  /\ TotalSupply > 0
  /\ inserted = drawn + TotalSupply

\* C2 (no partial draw survives failure): when the last insert returned no
\* Bouquet, every stem's count equals its count before the call, except the
\* inserted stem's, which is one higher.
C2_NoPartialDraw ==
  (call # <<>> /\ bouquet = <<>>) =>
    \A stem \in Keys(supply, LastCall.before) :
      Count(supply, stem) =
        Count(LastCall.before, stem) + (IF stem = LastCall.stem THEN 1 ELSE 0)

\* the insert returned nothing after two candidates failed in a row, one of
\* them stopped by a count of 0 after it had drawn from another stem, one
\* of them because stems remained to be drawn after the last requirement
C2_Witness ==
  /\ call # <<>>
  /\ bouquet = <<>>
  /\ Len(LastCall.attempts) >= 2
  /\ \E n \in 1..Len(LastCall.attempts) :
       LastCall.attempts[n].stopped /\ LastCall.attempts[n].arrangement # <<>>
  /\ \E n \in 1..Len(LastCall.attempts) :
       ~LastCall.attempts[n].stopped /\ LastCall.attempts[n].remaining > 0

\* the insert returned nothing because no design is indexed under the stem
C2_WitnessNoDesign ==
  /\ call # <<>>
  /\ bouquet = <<>>
  /\ LastCall.bucket = <<>>
  /\ designs # EmptyMap

\* the sum of the counts that the entries of the arrangement before index n
\* (later in the list: drawn earlier) hold for the stem
RECURSIVE DrawnBefore(_, _, _)
DrawnBefore(arrangement, n, stem) ==
  IF n >= Len(arrangement) THEN 0
  ELSE (IF arrangement[n + 1].stem = stem THEN arrangement[n + 1].count ELSE 0)
       + DrawnBefore(arrangement, n + 1, stem)

\* C3 (assembly validity): the counts of every Bouquet returned sum to the
\* design's total; the arrangement has one entry per requirement, and each
\* entry's count is at most the bounded maximum of its requirement and at
\* most the supply of its stem at the moment it was drawn (the supply the
\* extraction started from less what the extraction had drawn of that stem
\* before).
C3_AssemblyValid ==
  bouquet # <<>> =>
    LET b == bouquet[1]
        k == Len(b.design.required)
        start == LastCall.attempts[Len(LastCall.attempts)].start
    IN /\ SumCounts(b.arrangement) = b.design.total
       /\ Len(b.arrangement) = k
       /\ \A n \in 1..k :
            LET drawnEntry == b.arrangement[n]
                req == b.design.required[k + 1 - n]
            IN /\ drawnEntry.stem = req.stem
               /\ drawnEntry.count <= req.count
               /\ drawnEntry.count <=
                    Count(start, req.stem) - DrawnBefore(b.arrangement, n, req.stem)
               /\ drawnEntry.count >= 0

\* a Bouquet of three requirements was returned although the supply held more
\* of a stem than the bounded maximum allows to draw
C3_Witness ==
  /\ bouquet # <<>>
  /\ Len(bouquet[1].arrangement) >= 3
  /\ \E n \in 1..Len(bouquet[1].design.required) :
       Count(LastCall.added, bouquet[1].design.required[n].stem)
         > bouquet[1].design.required[n].count

\* the indices (in call order of add_design) of the designs indexed under the
\* inserted stem that _extract can complete from the supply after add_stem
Satisfiable ==
  {i \in 1..Len(registered) :
     /\ LastCall.stem \in StemsOf(registered[i])
     /\ _extract(registered[i], LastCall.added).ok}

Earliest(S) == CHOOSE i \in S : \A j \in S : i <= j
Latest(S) == CHOOSE i \in S : \A j \in S : j <= i

\* C4 as claimed (first fit in registration order): when two or more
\* designs indexed under the inserted stem can each be completed from the
\* supply, the Bouquet returned is for the one registered earliest.
C4_EarliestRegisteredWins ==
  (call # <<>> /\ Cardinality(Satisfiable) >= 2) =>
    /\ bouquet # <<>>
    /\ bouquet[1].design = registered[Earliest(Satisfiable)]

\* C4 as amended (first fit in reverse registration order): add_design
\* pushes to the front of the bucket, so the candidates are tried from the
\* most recently registered to the earliest, and when two or more of them
\* can each be completed from the supply, the Bouquet returned is for the
\* one registered latest.
C4_LatestRegisteredWins ==
  (call # <<>> /\ Cardinality(Satisfiable) >= 2) =>
    /\ bouquet # <<>>
    /\ bouquet[1].design = registered[Latest(Satisfiable)]
    /\ \A n \in 1..Len(LastCall.attempts) :
         n < Len(LastCall.attempts) => ~LastCall.attempts[n].ok

\* two different designs could each be completed and a Bouquet was returned
C4_Witness ==
  /\ call # <<>>
  /\ Cardinality(Satisfiable) >= 2
  /\ registered[Earliest(Satisfiable)] # registered[Latest(Satisfiable)]
  /\ bouquet # <<>>

\* C5 as claimed (every required stem receives at least one unit): in every
\* Bouquet returned, the count drawn for each requirement of the design is
\* at least 1.
C5_EveryRequirementDrawn ==
  bouquet # <<>> =>
    \A n \in 1..Len(bouquet[1].arrangement) : bouquet[1].arrangement[n].count >= 1

----------------------------------------------------------------------------
(* Properties of Design::from_string and add_design on one line            *)
(* (SpecParse).                                                            *)

\* the line has been handed to Design::from_string
Parsed == pc = "aborted" \/ registered # <<>>

\* the (count, species) pairs written in a line that matches the grammar, as
\* numbers, in the order of the text
WrittenPairs(l) ==
  LET specs == RawSpecs(MatchDesign(l).m3, 1)
  IN [n \in 1..Len(specs) |-> [count |-> stoi(specs[n].digits),
                               species |-> specs[n].species]]
\* the total written in a line that matches the grammar
WrittenTotal(l) == stoi(MatchDesign(l).m4)
\* the number of distinct species written in the line
DistinctSpecies(l) ==
  Cardinality({WrittenPairs(l)[n].species : n \in 1..Len(WrittenPairs(l))})

\* C6 as claimed (bounded-maximum derivation): for an accepted line with
\* total t and k distinct species, the maximum stored for a species written
\* with count m is min(m, t - k + 1), k counting a repeated species once.
C6_BoundedMaxOverDistinct ==
  registered # <<>> =>
    LET d == registered[1]
        any == WrittenTotal(line) - DistinctSpecies(line) + 1
    IN \A n \in 1..Len(WrittenPairs(line)) :
         \E m \in 1..Len(d.required) :
           /\ d.required[m].stem.species = WrittenPairs(line)[n].species
           /\ d.required[m].count = Min(WrittenPairs(line)[n].count, any)

\* some pair of the line has a bounded maximum below 1: its count is 0, or
\* the total is below the number of pairs
DerivedBelowOne(l) ==
  \E n \in 1..Len(WrittenPairs(l)) :
    Min(WrittenPairs(l)[n].count, WrittenTotal(l) - Len(WrittenPairs(l)) + 1) < 1

\* C7 (bounded-maximum rejection): a line that matches the grammar and has a
\* bounded maximum below 1 makes from_string throw, and nothing is added to
\* any bucket of the index; every Design constructed has every stored
\* maximum at least 1.
C7_Rejection ==
  /\ (MatchDesign(line).ok /\ DerivedBelowOne(line)) =>
       /\ registered = <<>>
       /\ designs = EmptyMap
       /\ Parsed => pc = "aborted"
  /\ \A i \in 1..Len(registered) :
       \A n \in 1..Len(registered[i].required) :
         registered[i].required[n].count >= 1

\* from_string threw on a line of the grammar whose counts are all positive:
\* the total is below the number of pairs
C7_Witness ==
  /\ pc = "aborted"
  /\ MatchDesign(line).ok
  /\ \A n \in 1..Len(WrittenPairs(line)) : WrittenPairs(line)[n].count >= 1
  /\ WrittenTotal(line) < Len(WrittenPairs(line))
  /\ designs = EmptyMap

\* the supplies that hold up to design.total + 1 of each stem of the design:
\* _extract draws design.total at most, so a larger count of a stem is never
\* drawn from and never read as 0
Inventories(design) == [StemsOf(design) -> 0..(design.total + 1)]
\* there is a supply from which _extract completes the design
CanExtract(design) == \E inv \in Inventories(design) : _extract(design, inv).ok

\* C8 as claimed (no never-matchable design is admitted): every design that
\* from_string accepts and add_design registers can be extracted from some
\* supply; in particular its stored maxima sum to at least its total.
C8_NoNeverMatchable ==
  \A i \in 1..Len(registered) :
    /\ SumCounts(registered[i].required) >= registered[i].total
    /\ CanExtract(registered[i])

\* C8 as amended: every design that from_string accepts has every stored
\* maximum at least 1, and it can be extracted from some supply exactly when
\* its stored maxima sum to at least its total; a design whose maxima sum to
\* less than its total is admitted all the same and never matched.
C8_MatchableIffMaximaReachTotal ==
  \A i \in 1..Len(registered) :
    /\ \A n \in 1..Len(registered[i].required) : registered[i].required[n].count >= 1
    /\ CanExtract(registered[i])
         <=> SumCounts(registered[i].required) >= registered[i].total

\* a design was registered whose stored maxima sum to less than its total
C8_Witness ==
  /\ registered # <<>>
  /\ SumCounts(registered[1].required) < registered[1].total
  /\ registered[1] \in {designs[stem][1] : stem \in DOMAIN designs}

\* how often x occurs in the list
Occurrences(list, x) == Cardinality({n \in 1..Len(list) : list[n] = x})
\* every stem of the model
AllStems == [species : Lower, size : Sizes]

\* C9 as claimed (registration index shape): every registered design with k
\* distinct required stems is in exactly k buckets: once (per add_design
\* call of that design) in the bucket of each stem it requires, and in no
\* other bucket; the entries of earlier registrations stay.
C9_IndexShape ==
  \A i \in 1..Len(registered) :
    LET d == registered[i]
        calls == Occurrences(registered, d)
    IN /\ \A stem \in AllStems :
            Occurrences(Bucket(designs, stem), d)
              = IF stem \in StemsOf(d) THEN calls ELSE 0
       /\ Cardinality({stem \in DOMAIN designs : Occurrences(designs[stem], d) > 0})
            = Cardinality(StemsOf(d))

\* C10 as claimed (requirement de-duplication): the requirements of every
\* Design constructed hold one entry per distinct species of the line, never
\* two entries of the same stem.
C10_OneEntryPerSpecies ==
  \A i \in 1..Len(registered) :
    LET req == registered[i].required
    IN \A n, m \in 1..Len(req) : req[n].stem = req[m].stem => n = m

----------------------------------------------------------------------------
(* Properties of one insert: add_stem followed by bouquet_for_stem.        *)

RECURSIVE DrawnOf(_, _)
\* the sum of the counts the arrangement holds for the stem
DrawnOf(arrangement, stem) ==
  IF arrangement = <<>> THEN 0
  ELSE (IF Head(arrangement).stem = stem THEN Head(arrangement).count ELSE 0)
       + DrawnOf(Tail(arrangement), stem)

\* this step is an insert (the second loop's body ran to its end)
InsertStep == inserted' = inserted + 1

\* C11 (effect of a successful insert): a step that returns a Bouquet returns
\* exactly one; every stem's count after it is its count before it, plus one
\* for the inserted stem, minus what the Bouquet's arrangement holds of that
\* stem (so stems the design does not require keep their count); the index
\* of designs is unchanged; and the bucket's candidates after the one that
\* succeeded were not tried.
C11_SuccessfulInsert ==
  [][(InsertStep /\ bouquet' # <<>>) =>
       LET c == call'[1]
           b == bouquet'[1]
       IN /\ Len(bouquet') = 1
          /\ \A stem \in AllStems :
               Count(supply', stem) =
                 Count(supply, stem) + (IF stem = c.stem THEN 1 ELSE 0)
                   - DrawnOf(b.arrangement, stem)
          /\ \A stem \in AllStems \ (StemsOf(b.design) \cup {c.stem}) :
               Count(supply', stem) = Count(supply, stem)
          /\ designs' = designs
          /\ Len(c.attempts) <= Len(Bucket(designs, c.stem))
          /\ \A n \in 1..Len(c.attempts) :
               /\ c.attempts[n].design = Bucket(designs, c.stem)[n]
               /\ c.attempts[n].ok <=> n = Len(c.attempts)
          /\ b.design = c.attempts[Len(c.attempts)].design]_vars

\* a Bouquet was returned by the first candidate of a bucket of two, while
\* the supply holds a stem that the design does not require
C11_Witness ==
  /\ call # <<>>
  /\ bouquet # <<>>
  /\ Len(LastCall.attempts) < Len(LastCall.bucket)
  /\ \E stem \in DOMAIN supply :
       /\ stem \notin StemsOf(bouquet[1].design)
       /\ supply[stem] > 0
  /\ \E stem \in StemsOf(bouquet[1].design) : stem # LastCall.stem

----------------------------------------------------------------------------
(* Properties of the lines main rejects.                                   *)

\* a stem line that is no item token: not two characters, a species outside
\* a-z, or a size outside {S, L}
MalformedItem(l) ==
  \/ Len(l) # 2
  \/ l[1] \notin Lower
  \/ l[2] \notin Sizes

\* a design line that the grammar does not match, or that has a bounded
\* maximum below 1
RejectedDesign(l) == ~MatchDesign(l).ok \/ DerivedBelowOne(l)

\* the step reads a stem line, or a design line, that is not well formed
ReadsBadLine ==
  /\ line' # <<>>
  /\ \/ pc = "stems" /\ MalformedItem(line')
     \/ pc = "designs" /\ RejectedDesign(line')

\* C12 (parse errors never corrupt the composer's state): a step that reads
\* a malformed stem line or a rejected design line ends in the error, and the
\* supply and the index of designs are what they were before the line was
\* read; no other step ends in an error.
C12_ErrorsBeforeMutation ==
  [][/\ ReadsBadLine =>
          /\ pc' = "aborted"
          /\ supply' = supply
          /\ designs' = designs
          /\ bouquet' = bouquet
     /\ pc' = "aborted" => ReadsBadLine]_vars

\* a malformed stem line ended the program after designs were registered and
\* stems inserted
C12_Witness ==
  /\ pc = "aborted"
  /\ MalformedItem(line)
  /\ designs # EmptyMap
  /\ inserted > 0
  /\ TotalSupply > 0

\* a rejected design line ended the program after a design was registered
C12_WitnessDesign ==
  /\ pc = "aborted"
  /\ inserted = 0
  /\ MatchDesign(line).ok
  /\ registered # <<>>

----------------------------------------------------------------------------
(* Properties of _extract.                                                 *)

\* the stems of a list of StemCounts, in the order of the list
StemsInOrder(list) == [n \in 1..Len(list) |-> list[n].stem]

\* C13 as claimed (assembly pair order): the pairs of every Bouquet returned
\* are in the order of the design's requirements, the order in which
\* _extract visits them.
C13_RequirementOrder ==
  bouquet # <<>> =>
    StemsInOrder(bouquet[1].arrangement) = StemsInOrder(bouquet[1].design.required)

\* C13 as amended: _extract pushes each pair to the front of the
\* arrangement, so the pairs of every Bouquet returned are in the reverse of
\* the order of the design's requirements: the n-th pair belongs to the
\* n-th requirement from the back, the first pair to the requirement
\* visited last.
C13_ReverseRequirementOrder ==
  bouquet # <<>> =>
    LET arrangement == bouquet[1].arrangement
        required == bouquet[1].design.required
        k == Len(required)
        steps == LastCall.attempts[Len(LastCall.attempts)].steps
    IN /\ Len(arrangement) = k
       /\ \A n \in 1..k : arrangement[n].stem = required[k + 1 - n].stem
       /\ Len(steps) = k
       /\ \A n \in 1..k :
            /\ steps[n].stem = required[n].stem
            /\ arrangement[k + 1 - n].count = steps[n].take

\* a Bouquet of three different stems was returned
C13_Witness ==
  /\ bouquet # <<>>
  /\ Len(bouquet[1].arrangement) = 3
  /\ Cardinality(StemsOf(bouquet[1].design)) = 3

\* the requirements of the design are for pairwise distinct stems
DistinctStems(design) == Cardinality(StemsOf(design)) = Len(design.required)

RECURSIVE SumCapped(_, _)
\* the sum over the requirements of min(bounded maximum, count in inv)
SumCapped(reqs, inv) ==
  IF reqs = <<>> THEN 0
  ELSE Min(Head(reqs).count, Count(inv, Head(reqs).stem)) + SumCapped(Tail(reqs), inv)

\* every required stem has a count of at least 1 in inv, and the capped
\* counts reach the design's total
Completable(design, inv) ==
  /\ \A stem \in StemsOf(design) : Count(inv, stem) >= 1
  /\ SumCapped(design.required, inv) >= design.total

\* the places in the bucket of the designs that are Completable from inv
CompletableIn(bucket, inv) == {n \in 1..Len(bucket) : Completable(bucket[n], inv)}

\* C15 (extraction success condition): for a design whose requirements are
\* for pairwise distinct stems, _extract succeeds from a supply exactly when
\* every required stem has a count of at least 1 and the sum of
\* min(bounded maximum, count) reaches the total: for every supply of up to
\* total + 1 per stem (checked while the designs are read, which is when they
\* change) and for every _extract call of the last insert.  Hence an insert
\* whose bucket holds only such designs returns a Bouquet exactly when one
\* of them meets the condition, for the first in the bucket that does.
C15_ExtractionSucceedsIff ==
  /\ inserted = 0 =>
       \A i \in 1..Len(registered) :
         DistinctStems(registered[i]) =>
           \A inv \in Inventories(registered[i]) :
             _extract(registered[i], inv).ok <=> Completable(registered[i], inv)
  /\ call # <<>> =>
       /\ \A n \in 1..Len(LastCall.attempts) :
            DistinctStems(LastCall.attempts[n].design) =>
              (LastCall.attempts[n].ok
                 <=> Completable(LastCall.attempts[n].design, LastCall.attempts[n].start))
       /\ (\A n \in 1..Len(LastCall.bucket) : DistinctStems(LastCall.bucket[n])) =>
            LET able == CompletableIn(LastCall.bucket, LastCall.added)
            IN /\ bouquet # <<>> <=> able # {}
               /\ bouquet # <<>> =>
                    bouquet[1].design = LastCall.bucket[Earliest(able)]

\* the design of the line IS3a2b5 alone: the fifth of the inserts aS, aS, aS,
\* bS, bS returns the first Bouquet, 3 of a and 2 of b, and leaves no stem
C15_Witness ==
  /\ Len(registered) = 1
  /\ registered[1].name = "I"
  /\ registered[1].total = 5
  /\ StemsInOrder(registered[1].required)
       = <<[species |-> "b", size |-> "S"], [species |-> "a", size |-> "S"]>>
  /\ inserted = 5
  /\ drawn = 5
  /\ bouquet # <<>>
  /\ bouquet[1].arrangement
       = <<[stem |-> [species |-> "a", size |-> "S"], count |-> 3],
           [stem |-> [species |-> "b", size |-> "S"], count |-> 2]>>
  /\ line = <<"b", "S">>
  /\ TotalSupply = 0

RECURSIVE TakenBefore(_, _)
\* the sum of the takes of the first n steps
TakenBefore(steps, n) ==
  IF n = 0 THEN 0 ELSE steps[n].take + TakenBefore(steps, n - 1)

RECURSIVE TakenOfBefore(_, _, _)
\* the sum of the takes of the first n steps that drew the stem
TakenOfBefore(steps, n, stem) ==
  IF n = 0 THEN 0
  ELSE (IF steps[n].stem = stem THEN steps[n].take ELSE 0)
       + TakenOfBefore(steps, n - 1, stem)

\* the count of the stem that the n-th visit of the attempt finds: the count
\* the attempt started from less what its earlier visits drew of the stem
AvailableAt(attempt, n, stem) ==
  Count(attempt.start, stem) - TakenOfBefore(attempt.steps, n - 1, stem)

\* C16 (greedy take rule): in every _extract call the requirements are
\* visited in the order of design.required; the n-th visit draws
\* min(bounded maximum, available count, total - the takes before it); the
\* call stops at the first requirement whose available count is 0 and draws
\* from no later requirement; the supply it leaves is the supply it started
\* from less the takes.
C16_GreedyTake ==
  call # <<>> =>
    \A a \in 1..Len(LastCall.attempts) :
      LET attempt == LastCall.attempts[a]
          required == attempt.design.required
          steps == attempt.steps
          visited == Len(steps)
      IN /\ visited <= Len(required)
         /\ \A n \in 1..visited :
              /\ steps[n].stem = required[n].stem
              /\ AvailableAt(attempt, n, required[n].stem) # 0
              /\ steps[n].take =
                   Min(required[n].count,
                       Min(AvailableAt(attempt, n, required[n].stem),
                           attempt.design.total - TakenBefore(steps, n - 1)))
         /\ attempt.stopped <=> visited < Len(required)
         /\ attempt.stopped =>
              AvailableAt(attempt, visited + 1, required[visited + 1].stem) = 0
         /\ \A stem \in AllStems :
              Count(attempt.extracted, stem) =
                Count(attempt.start, stem) - TakenOfBefore(steps, visited, stem)
         /\ SumCounts(attempt.arrangement) = TakenBefore(steps, visited)

\* an _extract call drew from two requirements, one take cut by the bounded
\* maximum and one by the available count, and stopped at the third, whose
\* stem had a count of 0
C16_Witness ==
  /\ call # <<>>
  /\ \E a \in 1..Len(LastCall.attempts) :
       LET attempt == LastCall.attempts[a]
       IN /\ attempt.stopped
          /\ Len(attempt.steps) = 2
          /\ Len(attempt.design.required) = 3
          /\ attempt.steps[1].take < attempt.steps[1].entry
          /\ attempt.steps[2].take < attempt.steps[2].count

\* an _extract call whose last take was cut to what remained of the total
C16_WitnessRemaining ==
  /\ call # <<>>
  /\ \E a \in 1..Len(LastCall.attempts) :
       LET attempt == LastCall.attempts[a]
           last == attempt.steps[Len(attempt.steps)]
       IN /\ Len(attempt.steps) >= 2
          /\ last.take < last.entry
          /\ last.take < last.count

----------------------------------------------------------------------------
(* Properties of bouquet_for_stem's loop over the candidates.              *)

\* the two supplies hold the same count of every stem
SameCounts(s1, s2) == \A stem \in Keys(s1, s2) : Count(s1, stem) = Count(s2, stem)

\* C17 (candidate isolation): within one insert every _extract call starts
\* from the supply before the insert plus one of the inserted stem; a call
\* that fails leaves, after _restore, the counts it started from; so every
\* candidate succeeds or fails, and draws, as it would if it were tried
\* alone from that supply, and only a failed candidate is followed by
\* another.
C17_CandidateIsolation ==
  call # <<>> =>
    LET c == LastCall
    IN \A a \in 1..Len(c.attempts) :
         LET attempt == c.attempts[a]
             alone == _extract(attempt.design, add_stem(c.before, c.stem))
         IN /\ \A stem \in Keys(attempt.start, c.before) \cup {c.stem} :
                 Count(attempt.start, stem) =
                   Count(c.before, stem) + (IF stem = c.stem THEN 1 ELSE 0)
            /\ ~attempt.ok => SameCounts(attempt.left, attempt.start)
            /\ attempt.ok = alone.ok
            /\ attempt.arrangement = alone.arrangement
            /\ a < Len(c.attempts) => ~attempt.ok
            /\ attempt.design = c.bucket[a]

\* the first candidate drew from three stems and failed, and the second
\* candidate then succeeded
C17_Witness ==
  /\ call # <<>>
  /\ Len(LastCall.attempts) >= 2
  /\ ~LastCall.attempts[1].ok
  /\ Len(LastCall.attempts[1].arrangement) >= 3
  /\ LastCall.attempts[2].ok
  /\ bouquet # <<>>

\* the registered designs that _extract can complete from the supply
Extractable == {i \in 1..Len(registered) : _extract(registered[i], supply).ok}

\* C18 as claimed (quiescence after every insert): with all designs
\* registered before the first insert and the supply empty at the start,
\* after every insert no registered design can be extracted from the supply
\* that is left.
C18_Quiescent == Extractable = {}

\* every count of the supply is a natural number
NonNegative(sup) == \A stem \in DOMAIN sup : sup[stem] \in Nat

\* C19 (inventory non-negativity): in every state every count of the supply
\* is a non-negative integer, and so is every count inside the _extract and
\* _restore calls of the last insert: the supply each call started from, each
\* entry after its take, the supply the call left and the supply after
\* _restore; the running `remaining` never drops below 0.
C19_NonNegative ==
  /\ NonNegative(supply)
  /\ call # <<>> =>
       /\ NonNegative(LastCall.before)
       /\ NonNegative(LastCall.added)
       /\ \A a \in 1..Len(LastCall.attempts) :
            LET attempt == LastCall.attempts[a]
            IN /\ NonNegative(attempt.start)
               /\ NonNegative(attempt.extracted)
               /\ NonNegative(attempt.left)
               /\ attempt.remaining >= 0
               /\ \A n \in 1..Len(attempt.steps) :
                    /\ attempt.steps[n].take >= 0
                    /\ attempt.steps[n].entry - attempt.steps[n].take >= 0
                    /\ attempt.steps[n].remaining >= 0
                    /\ attempt.steps[n].remaining =
                         attempt.design.total - TakenBefore(attempt.steps, n)
                    /\ AvailableAt(attempt, n + 1, attempt.steps[n].stem) >= 0

\* an _extract call emptied one stem's count, brought `remaining` to 0 with
\* its second take, then stopped at a count of 0 and was restored
C19_Witness ==
  /\ call # <<>>
  /\ \E a \in 1..Len(LastCall.attempts) :
       LET attempt == LastCall.attempts[a]
       IN /\ attempt.stopped
          /\ Len(attempt.steps) >= 2
          /\ attempt.steps[1].entry = attempt.steps[1].take
          /\ attempt.steps[2].remaining = 0
          /\ attempt.left # attempt.extracted

====
